---- MODULE Spec2Model ----
(***************************************************************************)
(* TerraTrace AI command center (src/src/app/page.tsx): the detection      *)
(* poller of CommandCenterPage.  The React state of the component, the     *)
(* interval timers it registers, the fetch requests in flight and the      *)
(* handlers handleDetect, loadVideo, triggerMockAlert, resetStatus, the    *)
(* URL input's onChange and the polling useEffect.                         *)
(*                                                                         *)
(* A JavaScript string is a sequence of one-character strings.             *)
(***************************************************************************)
EXTENDS Integers, Sequences, FiniteSets, TLC

\* ------------------------------------------------------------------------
\* Bounds of the model
\* ------------------------------------------------------------------------

\* Requests in flight at the same time.
MaxInflight == 2

\* Cap of the alert counter (the code has none).
MaxAlerts == 2

\* Interval handles the browser may have handed out and not yet recycled.
MaxTimers == 2

\* ------------------------------------------------------------------------
\* Strings
\* ------------------------------------------------------------------------

\* '' ; also stands for null where the code only tests truthiness or length
Empty == <<>>

\* videoId's null: getYoutubeVideoId returns null or a string of length 11
Null == <<>>

Https == <<"h", "t", "t", "p", "s", ":", "/", "/">>

WwwYoutubeCom == <<"w", "w", "w", ".", "y", "o", "u", "t", "u", "b", "e", ".", "c", "o", "m", "/">>

WatchV == <<"w", "a", "t", "c", "h", "?", "v", "=">>

YoutuBe == <<"y", "o", "u", "t", "u", ".", "b", "e", "/">>

Embed == <<"e", "m", "b", "e", "d", "/">>

IdA == <<"X", "s", "O", "U", "8", "J", "n", "E", "p", "N", "M">>

IdB == <<"d", "Q", "w", "4", "w", "9", "W", "g", "X", "c", "Q">>

NotAUrl == <<"n", "o", "t", " ", "a", " ", "u", "r", "l">>

Range(f) == {f[i] : i \in DOMAIN f}

\* \w of a JavaScript regular expression: [A-Za-z0-9_]
WordChars ==
    Range(<<"a", "b", "c", "d", "e", "f", "g", "h", "i", "j", "k", "l", "m",
            "n", "o", "p", "q", "r", "s", "t", "u", "v", "w", "x", "y", "z">>)
    \cup
    Range(<<"A", "B", "C", "D", "E", "F", "G", "H", "I", "J", "K", "L", "M",
            "N", "O", "P", "Q", "R", "S", "T", "U", "V", "W", "X", "Y", "Z">>)
    \cup
    Range(<<"0", "1", "2", "3", "4", "5", "6", "7", "8", "9">>)
    \cup {"_"}

\* what . of a JavaScript regular expression does not match
LineTerminators == {"\n", "\r"}

\* what String.prototype.trim strips
WhiteSpace == {" ", "\t", "\n", "\r"}

RECURSIVE trimStart(_)
trimStart(s) ==
    IF s # Empty /\ Head(s) \in WhiteSpace THEN trimStart(Tail(s)) ELSE s

RECURSIVE trimEnd(_)
trimEnd(s) ==
    IF s # Empty /\ s[Len(s)] \in WhiteSpace
    THEN trimEnd(SubSeq(s, 1, Len(s) - 1))
    ELSE s

\* String.prototype.trim
trim(s) == trimEnd(trimStart(s))

\* ------------------------------------------------------------------------
\* getYoutubeVideoId
\*   /^.*(youtu.be\/|v\/|u\/\w\/|embed\/|watch\?v=|&v=)([^#&?]*).*/
\* ------------------------------------------------------------------------

\* The alternatives of group 1, in the order of the pattern.  An element is
\* a literal character, "ANY" (an unescaped .) or "WORD" (\w).
Alternatives ==
    << <<"y", "o", "u", "t", "u", "ANY", "b", "e", "/">>,
       <<"v", "/">>,
       <<"u", "/", "WORD", "/">>,
       <<"e", "m", "b", "e", "d", "/">>,
       <<"w", "a", "t", "c", "h", "?", "v", "=">>,
       <<"&", "v", "=">> >>

\* the characters [^#&?] excludes
TokenStop == {"#", "&", "?"}

\* the length match[2] must have
IdLength == 11

AtomMatches(atom, c) ==
    CASE atom = "ANY" -> c \notin LineTerminators
      [] atom = "WORD" -> c \in WordChars
      [] OTHER -> c = atom

\* alternative alt matches url from position i on
AltMatchesAt(url, i, alt) ==
    /\ i + Len(alt) - 1 <= Len(url)
    /\ \A k \in 1..Len(alt) : AtomMatches(alt[k], url[i + k - 1])

\* Lengths the leading ^.* can take: . matches no line terminator, so the
\* prefix ends before the first one.
PrefixLengths(url) ==
    LET lts == {j \in 1..Len(url) : url[j] \in LineTerminators}
    IN  IF lts = {} THEN 0..Len(url)
        ELSE 0..((CHOOSE j \in lts : \A k \in lts : j <= k) - 1)

\* ([^#&?]*) from position i on: greedy, the longest run
Group2(url, i) ==
    LET stops == {j \in i..Len(url) : url[j] \in TokenStop}
        end == IF stops = {} THEN Len(url)
               ELSE (CHOOSE j \in stops : \A k \in stops : j <= k) - 1
    IN  SubSeq(url, i, end)

\* url.match(regExp): the leading .* is greedy, so the match is the one with
\* the longest prefix after which some alternative matches (the first such
\* alternative); group 2 and the trailing .* then always match.  The result
\* is <<matched, match[2]>>.
RegExpMatch(url) ==
    LET cands == {p \in PrefixLengths(url) :
                    \E a \in 1..Len(Alternatives) :
                        AltMatchesAt(url, p + 1, Alternatives[a])}
    IN  IF cands = {} THEN <<FALSE, Empty>>
        ELSE LET p == CHOOSE q \in cands : \A r \in cands : r <= q
                 as == {a \in 1..Len(Alternatives) :
                          AltMatchesAt(url, p + 1, Alternatives[a])}
                 a == CHOOSE x \in as : \A y \in as : x <= y
             IN  <<TRUE, Group2(url, p + 1 + Len(Alternatives[a]))>>

\* the body of getYoutubeVideoId
ExtractVideoId(url) ==
    IF url = Empty THEN Null
    ELSE LET match == RegExpMatch(url)
         IN  IF match[1] /\ Len(match[2]) = IdLength THEN match[2] ELSE Null

\* the URL of the README (Usage, 1.)
UrlA == Https \o WwwYoutubeCom \o WatchV \o IdA

\* a second stream, pasted with blanks around it
UrlB == <<" ">> \o Https \o YoutuBe \o IdB \o <<" ">>

\* the texts the URL input takes in specification Spec
UrlInputs == {Empty, UrlA, UrlB, NotAUrl}

\* The texts the URL input takes in specification UrlSpec: links of every
\* shape the pattern names, with and without parameters after the id, and
\* texts of no such shape.
UrlCorpus ==
    {Empty, NotAUrl, UrlA, UrlB,
     \* watch?v=<id>&t=1
     UrlA \o <<"&", "t", "=", "1">>,
     \* watch?v=<id>#t
     UrlA \o <<"#", "t">>,
     \* youtu.be/<id>?si=x
     Https \o YoutuBe \o IdB \o <<"?", "s", "i", "=", "x">>,
     \* embed/<id>
     Https \o WwwYoutubeCom \o Embed \o IdA,
     \* v/<id> on another host
     Https \o <<"x", ".", "i", "o", "/", "v", "/">> \o IdA,
     \* u/1/<id>
     Https \o WwwYoutubeCom \o <<"u", "/", "1", "/">> \o IdB,
     \* watch?list=PL1&v=<id>
     Https \o WwwYoutubeCom
        \o <<"w", "a", "t", "c", "h", "?", "l", "i", "s", "t", "=", "P", "L", "1", "&", "v", "=">>
        \o IdB,
     \* live/<id>: a shape the pattern does not name
     Https \o WwwYoutubeCom \o <<"l", "i", "v", "e", "/">> \o IdA,
     \* watch?v= and ten characters
     Https \o WwwYoutubeCom \o WatchV \o SubSeq(IdA, 1, 10),
     \* youtu.be/<id>/ : twelve characters up to the end
     Https \o YoutuBe \o IdB \o <<"/">>,
     \* youtuXbe/<id>
     Https \o <<"y", "o", "u", "t", "u", "X", "b", "e", "/">> \o IdB,
     \* watch?v=<id>&ref=tv/news
     UrlA \o <<"&", "r", "e", "f", "=", "t", "v", "/", "n", "e", "w", "s">>}

\* getYoutubeVideoId is a pure function: its values on the texts of the
\* model are computed once, as pairs <<url, id>>.
VideoIdTable ==
    {<<trim(u), ExtractVideoId(trim(u))>> : u \in UrlInputs \cup UrlCorpus}

getYoutubeVideoId(url) ==
    IF \E p \in VideoIdTable : p[1] = url
    THEN (CHOOSE p \in VideoIdTable : p[1] = url)[2]
    ELSE ExtractVideoId(url)

\* ------------------------------------------------------------------------
\* Inputs: what the user types, what the service answers
\* ------------------------------------------------------------------------

\* A parsed JSON body.  json: "invalid" (response.json() throws), "null" or
\* "object"; triggered: "true", "false" or "absent"; error_message: the
\* body's error.message, "" when absent.  JNull is also the state's null.
JNull == [json |-> "null", triggered |-> "absent", explanation |-> "", error_message |-> ""]

JNotJson == [json |-> "invalid", triggered |-> "absent", explanation |-> "", error_message |-> ""]

JEmptyObject == [json |-> "object", triggered |-> "absent", explanation |-> "", error_message |-> ""]

JTriggered == [json |-> "object", triggered |-> "true", explanation |-> "poacher", error_message |-> ""]

JClear == [json |-> "object", triggered |-> "false", explanation |-> "nothing", error_message |-> ""]

JError == [json |-> "object", triggered |-> "absent", explanation |-> "", error_message |-> "quota exceeded"]

\* What fetch and response.json() give: fetch "rejects" (network error) or
\* "resolves" with response.ok and a body.
NoResponse == [fetch |-> "none", ok |-> FALSE, body |-> JNull]

Responses ==
    {[fetch |-> "rejects", ok |-> FALSE, body |-> JNull]}
    \cup {[fetch |-> "resolves", ok |-> TRUE, body |-> b] :
            b \in {JTriggered, JClear, JNull, JEmptyObject, JNotJson}}
    \cup {[fetch |-> "resolves", ok |-> FALSE, body |-> b] :
            b \in {JError, JEmptyObject, JNotJson}}

\* the messages of the exceptions the runtime throws
FailedToFetch == "Failed to fetch"

JsonSyntaxError == "Unexpected token < in JSON"

NullTypeError == "Cannot read properties of null"

\* ------------------------------------------------------------------------
\* State
\* ------------------------------------------------------------------------

VARIABLES
    TRIO_API_URL,     \* module constant, "" when the environment sets none
    TRIO_API_KEY,     \* module constant, "" when the environment sets none
    aiStatus,         \* "running" | "warning" | "alert"
    activeAlerts,
    youtubeUrl,       \* the text of the URL input
    videoId,          \* Null or the id of the loaded video
    errorTip,
    detectResult,     \* JNull or the body stored last
    detectLoading,
    pollTimerRef,     \* pollTimerRef.current: 0 (null) or an interval handle
    timers,           \* the browser's active intervals: handle and the
                      \* youtubeUrl of the handleDetect the callback closes over
    inflight,         \* the fetch requests not yet settled, in order of issue
    mounted,          \* the component is on the page
    last              \* history: the step taken last

vars == <<TRIO_API_URL, TRIO_API_KEY, aiStatus, activeAlerts, youtubeUrl, videoId,
          errorTip, detectResult, detectLoading, pollTimerRef, timers, inflight,
          mounted, last>>

\* The component's state in one record, as the handlers read and write it.
\* detectCalled, issued, effectRan, cancelled, settled and inBounds describe
\* the step under way: handleDetect was invoked, fetch was called, the polling
\* effect re-ran, a live interval was cleared, the request at this position
\* of inflight settled (0: none), and the step stays within the bounds of the
\* model.
Cur ==
    [aiStatus |-> aiStatus, activeAlerts |-> activeAlerts, youtubeUrl |-> youtubeUrl,
     videoId |-> videoId, errorTip |-> errorTip, detectResult |-> detectResult,
     detectLoading |-> detectLoading, pollTimerRef |-> pollTimerRef,
     timers |-> timers, inflight |-> inflight,
     detectCalled |-> FALSE, issued |-> FALSE, effectRan |-> FALSE,
     cancelled |-> FALSE, settled |-> 0, inBounds |-> TRUE]

\* One step's result is computed once (c) and becomes the next state.
Commit(s, op, resp) ==
    \E c \in {s} :
        /\ c.inBounds
        /\ aiStatus' = c.aiStatus
        /\ activeAlerts' = c.activeAlerts
        /\ youtubeUrl' = c.youtubeUrl
        /\ videoId' = c.videoId
        /\ errorTip' = c.errorTip
        /\ detectResult' = c.detectResult
        /\ detectLoading' = c.detectLoading
        /\ pollTimerRef' = c.pollTimerRef
        /\ timers' = c.timers
        /\ inflight' = c.inflight
        /\ last' = [op |-> op, resp |-> resp, detectCalled |-> c.detectCalled,
                    issued |-> c.issued, effectRan |-> c.effectRan,
                    cancelled |-> c.cancelled, settled |-> c.settled,
                    preTimers |-> timers]
        /\ UNCHANGED <<TRIO_API_URL, TRIO_API_KEY, mounted>>

Init ==
    /\ TRIO_API_URL \in {"", "https://trio.example/api/check-once"}
    /\ TRIO_API_KEY \in {"", "trio-key"}
    /\ aiStatus = "running"
    /\ activeAlerts = 0
    /\ youtubeUrl = Empty
    /\ videoId = Null
    /\ errorTip = ""
    /\ detectResult = JNull
    /\ detectLoading = FALSE
    /\ pollTimerRef = 0
    /\ timers = {}
    /\ inflight = <<>>
    /\ mounted = TRUE
    /\ last = [op |-> "mount", resp |-> NoResponse, detectCalled |-> FALSE,
               issued |-> FALSE, effectRan |-> TRUE, cancelled |-> FALSE,
               settled |-> 0, preTimers |-> {}]

\* ------------------------------------------------------------------------
\* handleDetect, up to the await of fetch
\* ------------------------------------------------------------------------

ErrNoVideo == "Please load a valid YouTube video before running detection"

ErrConfig == "Invalid environment configuration. Check .env.local file and restart the project"

ErrInvalidLink == "Invalid link, please enter a valid YouTube video URL"

ErrApiFailed == "Trio API call failed"

\* fetch(TRIO_API_URL, {... body: {stream_url, condition}}): the request is
\* on the wire.  forVideoId records the videoId of the moment of the call.
fetch(s, stream_url) ==
    [s EXCEPT !.inflight = Append(@, [stream_url |-> stream_url, forVideoId |-> s.videoId]),
              !.issued = TRUE,
              !.inBounds = @ /\ Len(s.inflight) < MaxInflight]

\* handleDetect without "Basic validation 2"
handleDetect_NoConfigCheck(s, url) ==
    LET trimedUrl == trim(url)
        c == [s EXCEPT !.detectCalled = TRUE]
    IN  IF trimedUrl = Empty \/ getYoutubeVideoId(trimedUrl) = Null
        THEN [c EXCEPT !.errorTip = ErrNoVideo]
        ELSE fetch([c EXCEPT !.detectLoading = TRUE, !.errorTip = ""], trimedUrl)

\* url is the youtubeUrl of the render whose handleDetect is called
handleDetect(s, url) ==
    LET trimedUrl == trim(url)
        c == [s EXCEPT !.detectCalled = TRUE]
    IN  IF trimedUrl = Empty \/ getYoutubeVideoId(trimedUrl) = Null
        THEN [c EXCEPT !.errorTip = ErrNoVideo]
        ELSE IF TRIO_API_URL = "" \/ TRIO_API_KEY = ""
        THEN [c EXCEPT !.errorTip = ErrConfig]
        ELSE fetch([c EXCEPT !.detectLoading = TRUE, !.errorTip = ""], trimedUrl)

\* ------------------------------------------------------------------------
\* The polling effect: useEffect(..., [videoId, youtubeUrl])
\* ------------------------------------------------------------------------

\* setInterval returns a handle that names no live interval and is not the
\* one pollTimerRef still holds; 0 when the model has none left.
FreshHandle(s) ==
    LET free == {h \in 1..MaxTimers :
                    h # s.pollTimerRef /\ \A t \in s.timers : t.id # h}
    IN  IF free = {} THEN 0 ELSE CHOOSE h \in free : \A g \in free : h <= g

\* clearInterval(handle): a handle that names no live interval is ignored
clearInterval(s, handle) ==
    [s EXCEPT !.timers = {t \in @ : t.id # handle},
              !.cancelled = @ \/ \E t \in s.timers : t.id = handle]

\* an effect that returns no cleanup
pollingCleanup_Noop(s) == s

\* the effect's cleanup: pollTimerRef.current is cleared, not reset
pollingCleanup(s) ==
    IF s.pollTimerRef # 0 THEN clearInterval(s, s.pollTimerRef) ELSE s

\* the effect's body without the test of youtubeUrl.trim()
pollingEffect_NoUrlCheck(s) ==
    IF s.videoId # Null /\ TRIO_API_URL # "" /\ TRIO_API_KEY # ""
    THEN LET d == handleDetect(s, s.youtubeUrl)
             h == FreshHandle(d)
         IN  [d EXCEPT !.pollTimerRef = h,
                       !.timers = @ \cup {[id |-> h, youtubeUrl |-> s.youtubeUrl]},
                       !.inBounds = @ /\ h # 0]
    ELSE IF s.pollTimerRef # 0
         THEN [clearInterval(s, s.pollTimerRef) EXCEPT !.pollTimerRef = 0]
         ELSE s

\* the effect's body, run with the state of the render just committed
pollingEffect(s) ==
    IF s.videoId # Null /\ trim(s.youtubeUrl) # Empty
       /\ TRIO_API_URL # "" /\ TRIO_API_KEY # ""
    THEN LET d == handleDetect(s, s.youtubeUrl)
             h == FreshHandle(d)
         IN  [d EXCEPT !.pollTimerRef = h,
                       !.timers = @ \cup {[id |-> h, youtubeUrl |-> s.youtubeUrl]},
                       !.inBounds = @ /\ h # 0]
    ELSE IF s.pollTimerRef # 0
         THEN [clearInterval(s, s.pollTimerRef) EXCEPT !.pollTimerRef = 0]
         ELSE s

\* React after a handler: the render is committed and, when a dependency of
\* the effect differs from the previous render's, the previous cleanup and
\* then the effect run.
Rendered(old, s) ==
    IF s.videoId # old.videoId \/ s.youtubeUrl # old.youtubeUrl
    THEN pollingEffect(pollingCleanup([s EXCEPT !.effectRan = TRUE]))
    ELSE s

\* ------------------------------------------------------------------------
\* The other handlers
\* ------------------------------------------------------------------------

\* loadVideo without setVideoId(null) on an invalid link
loadVideo_KeepsVideoId(s) ==
    LET c == [s EXCEPT !.errorTip = "", !.detectResult = JNull]
        targetVideoId == getYoutubeVideoId(trim(s.youtubeUrl))
    IN  IF targetVideoId = Null
        THEN [c EXCEPT !.errorTip = ErrInvalidLink]
        ELSE [c EXCEPT !.videoId = targetVideoId]

loadVideo(s) ==
    LET c == [s EXCEPT !.errorTip = "", !.detectResult = JNull]
        targetVideoId == getYoutubeVideoId(trim(s.youtubeUrl))
    IN  IF targetVideoId = Null
        THEN [c EXCEPT !.errorTip = ErrInvalidLink, !.videoId = Null]
        ELSE [c EXCEPT !.videoId = targetVideoId]

\* triggerMockAlert with setActiveAlerts(prev => prev + 1) for setActiveAlerts(1)
triggerMockAlert_Increments(s) ==
    [s EXCEPT !.aiStatus = "alert", !.activeAlerts = @ + 1,
              !.inBounds = @ /\ s.activeAlerts < MaxAlerts]

triggerMockAlert(s) ==
    [s EXCEPT !.aiStatus = "alert", !.activeAlerts = 1]

\* resetStatus without setActiveAlerts(0)
resetStatus_KeepsCount(s) ==
    [s EXCEPT !.aiStatus = "running", !.detectResult = JNull]

resetStatus(s) ==
    [s EXCEPT !.aiStatus = "running", !.activeAlerts = 0, !.detectResult = JNull]

\* handleDetectSettled with the increment left out while another request is
\* in flight
handleDetectSettled_DropsOverlapped(s, r) ==
    LET result == r.body
        caught(c, msg) == [c EXCEPT !.errorTip = msg]
        tried ==
            IF r.fetch = "rejects" THEN caught(s, FailedToFetch)
            ELSE IF result.json = "invalid" THEN caught(s, JsonSyntaxError)
            ELSE IF r.ok
            THEN LET stored == [s EXCEPT !.detectResult = result]
                 IN  IF result.json = "null" THEN caught(stored, NullTypeError)
                     ELSE IF result.triggered = "true"
                     THEN IF s.inflight # <<>>
                          THEN [stored EXCEPT !.aiStatus = "alert",
                                              !.activeAlerts = IF @ = 0 THEN 1 ELSE @]
                          ELSE [stored EXCEPT !.aiStatus = "alert",
                                              !.activeAlerts = @ + 1,
                                              !.inBounds = @ /\ s.activeAlerts < MaxAlerts]
                     ELSE stored
            ELSE IF result.json = "null" THEN caught(s, NullTypeError)
            ELSE caught(s, IF result.error_message # "" THEN result.error_message
                           ELSE ErrApiFailed)
    IN  [tried EXCEPT !.detectLoading = FALSE]

\* handleDetectSettled with setAiStatus("running") on a result not triggered
handleDetectSettled_ClearsAlert(s, r) ==
    LET result == r.body
        caught(c, msg) == [c EXCEPT !.errorTip = msg]
        tried ==
            IF r.fetch = "rejects" THEN caught(s, FailedToFetch)
            ELSE IF result.json = "invalid" THEN caught(s, JsonSyntaxError)
            ELSE IF r.ok
            THEN LET stored == [s EXCEPT !.detectResult = result]
                 IN  IF result.json = "null" THEN caught(stored, NullTypeError)
                     ELSE IF result.triggered = "true"
                     THEN [stored EXCEPT !.aiStatus = "alert",
                                         !.activeAlerts = @ + 1,
                                         !.inBounds = @ /\ s.activeAlerts < MaxAlerts]
                     ELSE [stored EXCEPT !.aiStatus = "running"]
            ELSE IF result.json = "null" THEN caught(s, NullTypeError)
            ELSE caught(s, IF result.error_message # "" THEN result.error_message
                           ELSE ErrApiFailed)
    IN  [tried EXCEPT !.detectLoading = FALSE]

\* handleDetectSettled with setActiveAlerts(1) for setActiveAlerts(prev => prev + 1)
handleDetectSettled_SetsOne(s, r) ==
    LET result == r.body
        caught(c, msg) == [c EXCEPT !.errorTip = msg]
        tried ==
            IF r.fetch = "rejects" THEN caught(s, FailedToFetch)
            ELSE IF result.json = "invalid" THEN caught(s, JsonSyntaxError)
            ELSE IF r.ok
            THEN LET stored == [s EXCEPT !.detectResult = result]
                 IN  IF result.json = "null" THEN caught(stored, NullTypeError)
                     ELSE IF result.triggered = "true"
                     THEN [stored EXCEPT !.aiStatus = "alert", !.activeAlerts = 1]
                     ELSE stored
            ELSE IF result.json = "null" THEN caught(s, NullTypeError)
            ELSE caught(s, IF result.error_message # "" THEN result.error_message
                           ELSE ErrApiFailed)
    IN  [tried EXCEPT !.detectLoading = FALSE]

\* handleDetect from the await of fetch on: try, catch, finally.  r is what
\* fetch and response.json() give.
handleDetectSettled(s, r) ==
    LET result == r.body
        caught(c, msg) == [c EXCEPT !.errorTip = msg]
        tried ==
            IF r.fetch = "rejects" THEN caught(s, FailedToFetch)
            ELSE IF result.json = "invalid" THEN caught(s, JsonSyntaxError)
            ELSE IF r.ok
            THEN LET stored == [s EXCEPT !.detectResult = result]
                 IN  IF result.json = "null" THEN caught(stored, NullTypeError)
                     ELSE IF result.triggered = "true"
                     THEN [stored EXCEPT !.aiStatus = "alert",
                                         !.activeAlerts = @ + 1,
                                         !.inBounds = @ /\ s.activeAlerts < MaxAlerts]
                     ELSE stored
            ELSE IF result.json = "null" THEN caught(s, NullTypeError)
            ELSE caught(s, IF result.error_message # "" THEN result.error_message
                           ELSE ErrApiFailed)
    IN  [tried EXCEPT !.detectLoading = FALSE]

\* the Manual Detect button's disabled attribute
ManualDetectDisabled ==
    videoId = Null \/ detectLoading

RemoveAt(seq, i) ==
    SubSeq(seq, 1, i - 1) \o SubSeq(seq, i + 1, Len(seq))

\* ------------------------------------------------------------------------
\* Steps
\* ------------------------------------------------------------------------

\* the URL input's onChange: the user changes the text to u
SetYoutubeUrlTo(u) ==
    /\ mounted
    /\ u # youtubeUrl
    /\ Commit(Rendered(Cur, [Cur EXCEPT !.youtubeUrl = u]), "setYoutubeUrl", NoResponse)

SetYoutubeUrl ==
    \E u \in UrlInputs : SetYoutubeUrlTo(u)

\* the Load Video button, or Enter in the URL input
LoadVideo ==
    /\ mounted
    /\ Commit(Rendered(Cur, loadVideo(Cur)), "loadVideo", NoResponse)

\* the Manual Detect button
ManualDetect ==
    /\ mounted
    /\ ~ManualDetectDisabled
    /\ Commit(handleDetect(Cur, youtubeUrl), "manualDetect", NoResponse)

\* a live interval fires
TimerTick ==
    \E t \in timers :
        Commit(handleDetect(Cur, t.youtubeUrl), "timerTick", NoResponse)

\* DetectSettles with the response dropped when videoId is no longer the one
\* the request was issued with
DetectSettles_DropsStale ==
    \E i \in 1..Len(inflight), r \in Responses :
        LET s == [Cur EXCEPT !.inflight = RemoveAt(@, i), !.settled = i]
        IN  Commit(IF mounted /\ inflight[i].forVideoId = videoId
                   THEN handleDetectSettled(s, r) ELSE s,
                   "detectSettles", r)

\* DetectSettles with a guard on the request: only the response to the call
\* issued last is applied
DetectSettles_LatestOnly ==
    \E i \in 1..Len(inflight), r \in Responses :
        LET s == [Cur EXCEPT !.inflight = RemoveAt(@, i), !.settled = i]
        IN  Commit(IF mounted /\ i = Len(inflight)
                   THEN handleDetectSettled(s, r) ELSE s,
                   "detectSettles", r)

\* a request in flight settles; an unmounted component's setters do nothing
DetectSettles ==
    \E i \in 1..Len(inflight), r \in Responses :
        LET s == [Cur EXCEPT !.inflight = RemoveAt(@, i), !.settled = i]
        IN  Commit(IF mounted THEN handleDetectSettled(s, r) ELSE s,
                   "detectSettles", r)

TriggerMockAlert ==
    /\ mounted
    /\ Commit(triggerMockAlert(Cur), "triggerMockAlert", NoResponse)

ResetStatus ==
    /\ mounted
    /\ Commit(resetStatus(Cur), "resetStatus", NoResponse)

\* the page is left: the effect's cleanup runs
Unmount ==
    /\ mounted
    /\ mounted' = FALSE
    /\ timers' = pollingCleanup(Cur).timers
    /\ last' = [op |-> "unmount", resp |-> NoResponse, detectCalled |-> FALSE,
                issued |-> FALSE, effectRan |-> FALSE,
                cancelled |-> pollingCleanup(Cur).cancelled, settled |-> 0,
                preTimers |-> timers]
    /\ UNCHANGED <<TRIO_API_URL, TRIO_API_KEY, aiStatus, activeAlerts, youtubeUrl,
                   videoId, errorTip, detectResult, detectLoading, pollTimerRef,
                   inflight>>

Next ==
    \/ SetYoutubeUrl
    \/ LoadVideo
    \/ ManualDetect
    \/ TimerTick
    \/ DetectSettles
    \/ TriggerMockAlert
    \/ ResetStatus
    \/ Unmount

Spec == Init /\ [][Next]_vars

\* The URL input, the Load Video button and the Manual Detect button alone,
\* over UrlCorpus, with no endpoint configured (so that no request is issued).
SetYoutubeUrlCorpus ==
    \E u \in UrlCorpus : SetYoutubeUrlTo(u)

InitUrl ==
    Init /\ TRIO_API_URL = "" /\ TRIO_API_KEY = ""

NextUrl ==
    \/ SetYoutubeUrlCorpus
    \/ LoadVideo
    \/ ManualDetect

UrlSpec == InitUrl /\ [][NextUrl]_vars

\* ------------------------------------------------------------------------
\* Properties
\* ------------------------------------------------------------------------

Configured == TRIO_API_URL # "" /\ TRIO_API_KEY # ""

\* C1: handleDetect, however it is invoked (button, effect, interval), calls
\* fetch only while videoId is set and TRIO_API_URL and TRIO_API_KEY are both
\* non-empty: the step that issues a request ends in such a state, and every
\* request in flight was issued with a videoId, under a full configuration.
C1_NoRequestWithoutStreamOrConfig ==
    /\ last.issued => (videoId # Null /\ Configured)
    /\ \A i \in 1..Len(inflight) : inflight[i].forVideoId # Null /\ Configured

\* C1's case: handleDetect ran for a loaded video with the configuration
\* incomplete, and called no fetch
C1_Witness ==
    /\ last.detectCalled /\ ~last.issued
    /\ videoId # Null /\ getYoutubeVideoId(trim(youtubeUrl)) # Null
    /\ ~Configured
    /\ errorTip = ErrConfig

\* C2: when a request of the mounted component settles with an HTTP-ok
\* response: a body with triggered true makes activeAlerts its previous value
\* plus 1 and aiStatus "alert"; any other body leaves activeAlerts as it was.
C2_TriggeredCountsOnce ==
    [][(/\ mounted
        /\ last'.op = "detectSettles"
        /\ last'.resp.fetch = "resolves" /\ last'.resp.ok)
       => IF last'.resp.body.triggered = "true"
          THEN activeAlerts' = activeAlerts + 1 /\ aiStatus' = "alert"
          ELSE activeAlerts' = activeAlerts]_vars

\* C2's case: a triggered response arrived when an alert was already counted
C2_Witness ==
    /\ last.op = "detectSettles" /\ mounted
    /\ last.resp.ok /\ last.resp.body = JTriggered
    /\ activeAlerts = 2 /\ aiStatus = "alert"

\* C3: at most one interval is live, and it is the one pollTimerRef holds;
\* a step that changes videoId leaves none of the intervals that were live
\* before it.
C3_OneTimer ==
    /\ [](Cardinality(timers) <= 1 /\ \A t \in timers : t.id = pollTimerRef)
    /\ [][videoId' # videoId => timers \cap timers' = {}]_vars

\* C3's case: loading another video cancelled the live interval and started
\* a new one
C3_Witness ==
    /\ last.op = "loadVideo" /\ last.effectRan /\ last.cancelled
    /\ last.preTimers # {}
    /\ Cardinality(timers) = 1
    /\ timers \cap last.preTimers = {}

\* the step re-ran the polling effect because videoId or youtubeUrl changed
DepsChanged ==
    last.effectRan /\ last.op \in {"setYoutubeUrl", "loadVideo"}

C5_DisabledWhileOutstanding ==
    mounted => ((inflight # <<>> \/ videoId = Null) => ManualDetectDisabled)

\* a detection call that failed: the network, the status or the body
FailedCall(r) ==
    \/ r.fetch = "rejects"
    \/ ~r.ok
    \/ r.body.json # "object"
    \/ r.body.triggered = "absent"

\* C6 as stated: when a request settles as a failure, errorTip is set and
\* detectResult stays what it was.
C6_FailureKeepsResult ==
    [][(mounted /\ last'.op = "detectSettles" /\ FailedCall(last'.resp))
       => (errorTip' # "" /\ detectResult' = detectResult)]_vars

\* C7 as stated: a loadVideo that rejects the URL text clears videoId, sets
\* errorTip and leaves detectResult, aiStatus, activeAlerts and youtubeUrl.
C7_Original ==
    [][(last'.op = "loadVideo" /\ getYoutubeVideoId(trim(youtubeUrl)) = Null)
       => /\ videoId' = Null
          /\ errorTip' # ""
          /\ detectResult' = detectResult
          /\ aiStatus' = aiStatus
          /\ activeAlerts' = activeAlerts
          /\ youtubeUrl' = youtubeUrl]_vars

\* C7, amended: a loadVideo that rejects the URL text clears videoId and
\* detectResult, sets errorTip to the invalid-link message and leaves
\* aiStatus, activeAlerts, youtubeUrl, detectLoading and the requests in
\* flight as they were.
C7_FailedLoadFrame ==
    [][(last'.op = "loadVideo" /\ getYoutubeVideoId(trim(youtubeUrl)) = Null)
       => /\ videoId' = Null
          /\ errorTip' = ErrInvalidLink
          /\ detectResult' = JNull
          /\ aiStatus' = aiStatus
          /\ activeAlerts' = activeAlerts
          /\ youtubeUrl' = youtubeUrl
          /\ detectLoading' = detectLoading
          /\ inflight' = inflight]_vars

\* C7's case: a load was rejected while a video was loaded and polling, an
\* alert counted and a request in flight
C7_Witness ==
    /\ last.op = "loadVideo" /\ getYoutubeVideoId(trim(youtubeUrl)) = Null
    /\ last.preTimers # {} /\ last.cancelled
    /\ videoId = Null /\ errorTip = ErrInvalidLink
    /\ activeAlerts > 0 /\ inflight # <<>>

\* The video-URL shapes, read off the pattern as written for YouTube links:
\* youtu.be/, v/, u/<word character>/, embed/, watch?v= or &v=, as literal
\* text.  The length of the marker at position i of u, 0 when there is none.
LiteralMarkers ==
    {YoutuBe, <<"v", "/">>, Embed, WatchV, <<"&", "v", "=">>}

MarkerLengthsAt(u, i) ==
    {Len(m) : m \in {m \in LiteralMarkers :
                        i + Len(m) - 1 <= Len(u) /\ SubSeq(u, i, i + Len(m) - 1) = m}}
    \cup {4 : k \in {k \in {i} : /\ i + 3 <= Len(u)
                                 /\ u[i] = "u" /\ u[i + 1] = "/"
                                 /\ u[i + 2] \in WordChars /\ u[i + 3] = "/"}}

\* the tokens of u: what follows a marker up to the end or the next #, & or ?,
\* when that is eleven characters
EmbeddedTokens(u) ==
    {SubSeq(u, j, j + IdLength - 1) :
        j \in {j \in 1..Len(u) :
                /\ \E i \in 1..j : j - i \in MarkerLengthsAt(u, i)
                /\ j + IdLength - 1 <= Len(u)
                /\ \A k \in j..(j + IdLength - 1) : u[k] \notin TokenStop
                /\ (j + IdLength <= Len(u) => u[j + IdLength] \in TokenStop)}}

\* C8 as stated: loadVideo on a text of none of the known shapes rejects:
\* videoId is null and errorTip is set.
C8_RejectsUnknownShapes ==
    (last.op = "loadVideo" /\ EmbeddedTokens(trim(youtubeUrl)) = {})
        => (videoId = Null /\ errorTip # "")

\* C9 as stated: loadVideo on a URL with an embedded eleven-character token
\* sets videoId to exactly that token, whatever parameters or fragment
\* follow it.
C9_ExtractsEmbeddedToken ==
    last.op = "loadVideo"
        => \A tok \in EmbeddedTokens(trim(youtubeUrl)) : videoId = tok

\* C10: activeAlerts > 0 exactly when aiStatus is "alert".
C10_CountIffAlert ==
    (activeAlerts > 0) <=> (aiStatus = "alert")

\* C10's case: a triggered detection is stored and the alert was simulated
\* on top of it: the count is forced to 1 with the status "alert"
C10_Witness ==
    /\ last.op = "triggerMockAlert"
    /\ detectResult = JTriggered
    /\ activeAlerts = 1 /\ aiStatus = "alert"

\* C11 as stated: whenever handleDetect is invoked with a videoId set and
\* TRIO_API_URL or TRIO_API_KEY empty, errorTip becomes the configuration
\* message, no fetch is called and activeAlerts stays what it was.
C11_ConfigErrorWhenUnconfigured ==
    [][(last'.detectCalled /\ videoId' # Null /\ ~Configured)
       => /\ errorTip' = ErrConfig
          /\ ~last'.issued /\ inflight' = inflight
          /\ activeAlerts' = activeAlerts]_vars

\* C12: the Simulate Alert button, in whatever state it is pressed, makes
\* aiStatus "alert" and activeAlerts 1 and calls no fetch; the Normal Mode
\* button, in whatever state it is pressed (so also right after Simulate
\* Alert), makes aiStatus "running", activeAlerts 0 and detectResult null.
C12_SimulateThenReset ==
    [][/\ last'.op = "triggerMockAlert"
            => /\ aiStatus' = "alert" /\ activeAlerts' = 1
               /\ ~last'.issued /\ inflight' = inflight
       /\ last'.op = "resetStatus"
            => /\ aiStatus' = "running" /\ activeAlerts' = 0
               /\ detectResult' = JNull]_vars

\* C12's case: the alert was simulated with a detection result stored, a
\* request in flight and polling live
C12_Witness ==
    /\ last.op = "triggerMockAlert"
    /\ detectResult = JClear /\ inflight # <<>> /\ timers # {}
    /\ aiStatus = "alert" /\ activeAlerts = 1

\* C13: aiStatus is "running" at the start, and a step that takes aiStatus
\* from "alert" to anything else is a resetStatus step: responses that are
\* not triggered, failed calls, loadVideo, changes of the URL text, ticks of
\* the interval and the unmount leave "alert" in place.
C13_AlertUntilReset ==
    /\ aiStatus = "running"
    /\ [][(aiStatus = "alert" /\ aiStatus' # "alert") => last'.op = "resetStatus"]_vars

\* C13's case: with the status "alert", a response that is not triggered
\* arrived and was stored
C13_Witness ==
    /\ last.op = "detectSettles" /\ mounted
    /\ last.resp.ok /\ last.resp.body = JClear
    /\ detectResult = JClear
    /\ aiStatus = "alert" /\ activeAlerts > 0

\* C14: once the component is unmounted no interval is live, and every step
\* after the unmount is the settling of a request issued before it: no tick
\* of an interval, no invocation of handleDetect, no fetch.
C14_UnmountStopsPolling ==
    ~mounted =>
        /\ timers = {}
        /\ last.op \in {"unmount", "detectSettles"}
        /\ ~last.detectCalled /\ ~last.issued

\* C14's case: the component was unmounted while an interval was live and a
\* request in flight
C14_Witness ==
    /\ ~mounted /\ last.op = "unmount"
    /\ last.preTimers # {} /\ last.cancelled
    /\ inflight # <<>>
    /\ timers = {}

\* C15: a change of the URL text or a loadVideo removes no request in flight;
\* and when a request settles HTTP-ok with a parsed body while videoId is no
\* longer the videoId it was issued with (another video loaded, or none),
\* the mounted component stores the body in detectResult and, when the body
\* is triggered, sets aiStatus "alert" and adds 1 to activeAlerts.
C15_StaleResponseApplied ==
    [][/\ last'.op \in {"setYoutubeUrl", "loadVideo"}
            => /\ Len(inflight') >= Len(inflight)
               /\ SubSeq(inflight', 1, Len(inflight)) = inflight
       /\ (/\ mounted /\ last'.op = "detectSettles"
           /\ inflight[last'.settled].forVideoId # videoId
           /\ last'.resp.fetch = "resolves" /\ last'.resp.ok
           /\ last'.resp.body.json # "invalid")
            => /\ detectResult' = last'.resp.body
               /\ last'.resp.body.triggered = "true"
                    => aiStatus' = "alert" /\ activeAlerts' = activeAlerts + 1]_vars

\* C15's case: after a rejected load had cleared videoId, a triggered
\* response to a request issued earlier arrived and raised the alert
C15_Witness ==
    /\ last.op = "detectSettles" /\ mounted
    /\ videoId = Null /\ errorTip = ErrInvalidLink
    /\ last.resp.ok /\ last.resp.body = JTriggered
    /\ detectResult = JTriggered
    /\ aiStatus = "alert" /\ activeAlerts = 1

\* C16: whichever of the requests in flight settles, first or last issued,
\* an HTTP-ok response with a parsed body becomes detectResult of the mounted
\* component; and detectResult changes in no other way than to the body of
\* the response that just arrived, or to null by loadVideo and resetStatus.
\* So after several overlapping calls detectResult is the body of the ok
\* response that arrived last, whatever the order of issue.
C16_LastArrivalWins ==
    [][/\ (/\ mounted /\ last'.op = "detectSettles"
           /\ last'.resp.fetch = "resolves" /\ last'.resp.ok
           /\ last'.resp.body.json # "invalid")
            => detectResult' = last'.resp.body
       /\ detectResult' # detectResult
            => \/ last'.op = "detectSettles" /\ detectResult' = last'.resp.body
               \/ last'.op \in {"loadVideo", "resetStatus"} /\ detectResult' = JNull]_vars

\* C16's case: two calls were in flight, and the response to the one issued
\* second arrived and was stored while the first is still in flight
C16_Witness ==
    /\ last.op = "detectSettles" /\ mounted
    /\ last.settled = 2 /\ Len(inflight) = 1
    /\ last.resp.ok /\ last.resp.body = JClear
    /\ detectResult = JClear

\* C17 as stated: a request that settles as a failure leaves the interval
\* and pollTimerRef as they were, and a tick of the interval that follows the
\* failure (videoId, the URL text and the configuration being what they were
\* when the failure arrived) calls fetch.
C17_PollingSurvivesFailure ==
    [][/\ (mounted /\ last'.op = "detectSettles" /\ FailedCall(last'.resp))
            => timers' = timers /\ pollTimerRef' = pollTimerRef
       /\ (/\ mounted /\ last.op = "detectSettles" /\ FailedCall(last.resp)
           /\ last'.op = "timerTick")
            => last'.issued]_vars

\* C18 as stated: the video id that getYoutubeVideoId extracts from the
\* stream_url of a request is the videoId of the moment the request was
\* issued.
C18_RequestNamesLoadedStream ==
    \A i \in 1..Len(inflight) :
        getYoutubeVideoId(inflight[i].stream_url) = inflight[i].forVideoId

\* C19: activeAlerts moves by exactly the responses counted.  A step that
\* settles a request adds 1 when the component is mounted and the response
\* is HTTP-ok with triggered true, and adds nothing otherwise, whatever else
\* is in flight and in whatever order the requests settle; every other step
\* except resetStatus and triggerMockAlert leaves activeAlerts as it was.
\* So over any run of steps without resetStatus and triggerMockAlert the
\* count grows by the number of triggered ok responses that arrived.
C19_NoIncrementLost ==
    [][IF last'.op = "detectSettles"
       THEN activeAlerts' = activeAlerts +
                (IF /\ mounted
                    /\ last'.resp.fetch = "resolves" /\ last'.resp.ok
                    /\ last'.resp.body.json = "object"
                    /\ last'.resp.body.triggered = "true"
                 THEN 1 ELSE 0)
       ELSE last'.op \notin {"resetStatus", "triggerMockAlert"}
                => activeAlerts' = activeAlerts]_vars

\* C19's case: with two calls in flight and one alert counted, the response
\* to the call issued second arrived first, triggered, and was counted
C19_Witness ==
    /\ last.op = "detectSettles" /\ mounted
    /\ last.settled = 2 /\ Len(inflight) = 1
    /\ last.resp.ok /\ last.resp.body = JTriggered
    /\ activeAlerts = 2

====
